---- MODULE Spec2Model ----
(***************************************************************************)
(* Orchestration scripts of the few-shot medical image classification      *)
(* repository: ensemble/infer_missing_predictions.py (scan, report,        *)
(* prompts, command generation, cluster submission),                       *)
(* utility/align_submission.py and ensemble/eval_2_val.py.                 *)
(*                                                                         *)
(* Strings are sequences of atoms.  An atom is a piece of text that none   *)
(* of the string operations of the scripts looks into: the separators      *)
(* "/", " ", "_", "-", the single digits, the literal "exp", a file        *)
(* extension, or an opaque chunk.  split, rsplit, endswith, "in", strip,   *)
(* lower, int() and the regular expression exp(\d+) are computed on these  *)
(* sequences as Python computes them on the characters.                    *)
(***************************************************************************)
EXTENDS Integers, Sequences, FiniteSets, TLC

VARIABLES
    fs,            \* work_dirs: (task, shot) -> None or the listing of <task>/<shot>-shot
    pc,            \* position of the program that runs
    model_infos,   \* dict of infer_missing_predictions.py, in insertion order
    stdout,        \* what the script has printed / asked / submitted, in order
    commands,      \* generated inference commands
    num_commands,  \* answer to the second prompt, as an integer
    task_counter,  \* run_commands_on_cluster: jobs submitted per task
    ci,            \* run_commands_on_cluster: number of commands already looped over
    submitted,     \* slurm command lines handed to subprocess.run, in order
    created,       \* log directories created by os.makedirs
    err,           \* the exception that ended the program, or "none"
    user_input,    \* infer_missing_predictions.py: the variable user_input
    typed,         \* the line the user typed at the last prompt
    scanIn,        \* get_model_dirs_without_prediction: <<task, shot, listing>>
    scanOut,       \* its outcome
    alignIn,       \* align_submission.py: per csv file, the validation csv and the submission
    disk,          \* align_submission.py: current content of each submission csv
    alignIdx,      \* align_submission.py: number of files already handled
    evalReport,    \* eval_2_val.py: lines of report.txt
    evalInfos,     \* eval_2_val.py: model_infos
    evalDirs       \* eval_2_val.py: directories made by os.makedirs

vars == <<fs, pc, model_infos, stdout, commands, num_commands, task_counter, ci,
          submitted, created, err, user_input, typed, scanIn, scanOut, alignIn, disk, alignIdx,
          evalReport, evalInfos, evalDirs>>

scanVars == <<scanIn, scanOut>>
alignVars == <<alignIn, disk, alignIdx>>
evalVars == <<evalReport, evalInfos, evalDirs>>

None == "None"

\* ------------------------------------------------------------------ bounds
MaxCommands == 3
MaxNum == 2
MaxNeg == 1
MaxListing == 2
MaxModels == 2
MaxComboIdx == 4
PoolWorkers == 2
MaxRetries == 1
MaxVal == 2
MaxSub == 3
MaxLines == 3

\* ------------------------------------------------------- string operations
Digits == {"0", "1", "2", "3", "4", "5", "6", "7", "8", "9"}

DigitVal(d) ==
    CASE d = "0" -> 0 [] d = "1" -> 1 [] d = "2" -> 2 [] d = "3" -> 3 [] d = "4" -> 4
      [] d = "5" -> 5 [] d = "6" -> 6 [] d = "7" -> 7 [] d = "8" -> 8 [] d = "9" -> 9

RECURSIVE ParseDigits(_)
ParseDigits(s) ==
    IF s = <<>> THEN 0
    ELSE 10 * ParseDigits(SubSeq(s, 1, Len(s) - 1)) + DigitVal(s[Len(s)])

Min(S) == CHOOSE x \in S : \A y \in S : x <= y
Max(S) == CHOOSE x \in S : \A y \in S : x >= y

\* str.split(sep): the pieces between the separators, empty pieces included.
RECURSIVE NextSep(_, _, _)
NextSep(s, sep, i) == IF i > Len(s) \/ s[i] = sep THEN i ELSE NextSep(s, sep, i + 1)

RECURSIVE SplitFrom(_, _, _)
SplitFrom(s, sep, i) ==
    LET j == NextSep(s, sep, i)
    IN  IF j > Len(s) THEN <<SubSeq(s, i, Len(s))>>
        ELSE <<SubSeq(s, i, j - 1)>> \o SplitFrom(s, sep, j + 1)

Split(s, sep) == SplitFrom(s, sep, 1)

\* str.rsplit(sep, 1)[0]: the text before the last separator, or the whole string.
RECURSIVE LastSep(_, _, _)
LastSep(s, sep, i) == IF i = 0 \/ s[i] = sep THEN i ELSE LastSep(s, sep, i - 1)

RSplitHead(s, sep) ==
    IF LastSep(s, sep, Len(s)) = 0 THEN s ELSE SubSeq(s, 1, LastSep(s, sep, Len(s)) - 1)

\* list[i] with Python's zero-based index; the caller checks HasIndex first.
HasIndex(list, i) == i + 1 \in 1..Len(list)
At(list, i) == list[i + 1]

EndsWith(s, ext) == Len(s) >= 1 /\ s[Len(s)] = ext
Contains(s, atom) == \E i \in 1..Len(s) : s[i] = atom

\* The maximal run of digits of s that starts at position i.
RECURSIVE DigitRun(_, _)
DigitRun(s, i) ==
    IF i <= Len(s) /\ s[i] \in Digits THEN <<s[i]>> \o DigitRun(s, i + 1) ELSE <<>>

\* EXP_PATTERN.search(string): leftmost "exp" followed by at least one digit.
ExpMatches(s) == {i \in 1..Len(s) : s[i] = "exp" /\ i < Len(s) /\ s[i + 1] \in Digits}

extract_exp_number(s) ==
    IF ExpMatches(s) = {} THEN 0 ELSE ParseDigits(DigitRun(s, Min(ExpMatches(s)) + 1))

\* str(int): decimal digits of a natural number.
RECURSIVE IntToStr(_)
IntToStr(n) ==
    LET d == CHOOSE x \in Digits : DigitVal(x) = n % 10
    IN  IF n < 10 THEN <<d>> ELSE IntToStr(n \div 10) \o <<d>>

\* os.path.join of two relative-to-the-first parts.
PathJoin(a, b) == a \o <<"/">> \o b

\* ------------------------------------------------------ program constants
work_dir_path == <<"/", "scratch", "/", "medfm", "/", "medfm-challenge", "/", "work_dirs">>
tasks == <<"colon", "endo", "chest">>
shots == << <<"1">>, <<"5">>, <<"1", "0">> >>
batch_size == 4
MetricMap == "multi-label/mAP"

task_gpu_map == [t \in {"colon", "chest", "endo"} |->
                    IF t = "colon" THEN "rtx4090" ELSE "rtx3090"]

ShotDir(shot) == shot \o <<"-", "shot">>
SubmissionName(task, shot) ==
    <<task, "_">> \o shot \o <<"-", "shot", "_", "submission", ".csv">>

\* The command of line 262 for a model directory.
InferCommand(task, shot, model_path, config_filepath, checkpoint_filepath) ==
    <<"python", " ", "tools", "/", "infer.py", " ">> \o config_filepath \o <<" ">>
        \o checkpoint_filepath \o <<" ">>
        \o PathJoin(PathJoin(PathJoin(PathJoin(work_dir_path, <<"data">>),
                                      <<"MedFMC_test">>), <<task>>), <<"images">>)
        \o <<" ", "--batch-size", " ">> \o IntToStr(batch_size)
        \o <<" ", "--out", " ">> \o PathJoin(model_path, SubmissionName(task, shot))

\* ------------------------------------------------------------ file system
(* A directory entry is [name, isDir, items]; items is the listing of the   *)
(* entry when it is a directory.  An item of a model directory is           *)
(* [name, isDir, vis]: vis is the listing of <item>/vis_data, or NoListing  *)
(* when the item has no vis_data folder that can be listed.  A file in      *)
(* vis_data is [name, tags], tags being the scalar tags an EventAccumulator *)
(* finds.  os.listdir gives Listed(l), or NoListing when it raises.         *)
NoListing == [ok |-> FALSE, list |-> <<>>]
Listed(l) == [ok |-> TRUE, list |-> l]
NoEventFile == [ok |-> FALSE, path |-> <<>>, tags |-> {}]
FileItem(name) == [name |-> name, isDir |-> FALSE, vis |-> NoListing]
DirItem(name, vis) == [name |-> name, isDir |-> TRUE, vis |-> vis]
NonePath == <<None>>
EventFile(name, tags) == [name |-> name, tags |-> tags]

\* get_file_from_directory (lines 82-87) on a directory given by path and listing.
FileMatches(file, extension, contains_string) ==
    EndsWith(file, extension) /\ (contains_string = None \/ Contains(file, contains_string))

get_file_from_directory(directory, items, extension, contains_string) ==
    LET hits == {i \in 1..Len(items) : FileMatches(items[i].name, extension, contains_string)}
    IN  IF hits = {} THEN NonePath ELSE PathJoin(directory, items[Min(hits)].name)

\* get_event_file_from_model_dir (lines 151-161): the first directory of the
\* listing decides; any exception gives None.
FirstDirItem(items) == Min({i \in 1..Len(items) : items[i].isDir})

\* A walk that goes on to the next subdirectory when one has no event file.
get_event_file_from_any_subdir(model_dir, items) ==
    LET withFile == {i \in 1..Len(items) :
                        items[i].isDir /\ items[i].vis.ok /\ items[i].vis.list # <<>>}
    IN  IF withFile = {} THEN NoEventFile
        ELSE LET entry == items[Min(withFile)]
             IN  [ok |-> TRUE,
                  path |-> PathJoin(PathJoin(PathJoin(model_dir, entry.name), <<"vis_data">>),
                                    entry.vis.list[1].name),
                  tags |-> entry.vis.list[1].tags]

get_event_file_from_model_dir(model_dir, items) ==
    IF {i \in 1..Len(items) : items[i].isDir} = {} THEN NoEventFile
    ELSE LET entry == items[FirstDirItem(items)]
         IN  IF ~entry.vis.ok \/ entry.vis.list = <<>> THEN NoEventFile
             ELSE [ok |-> TRUE,
                   path |-> PathJoin(PathJoin(PathJoin(model_dir, entry.name), <<"vis_data">>),
                                     entry.vis.list[1].name),
                   tags |-> entry.vis.list[1].tags]

\* is_metric_in_event_file (lines 142-148).
is_metric_in_event_file(event_file, metric) == metric \in event_file.tags

\* contains_csv_file (lines 128-139).
contains_csv_file(task, shot, items) ==
    \E i \in 1..Len(items) : items[i].name = SubmissionName(task, shot)

SettingDirectory(task, shot) == PathJoin(PathJoin(work_dir_path, <<task>>), ShotDir(shot))

\* The four checks of lines 177-195 on one entry that is a directory.
KeepsModelDir(task, shot, entry) ==
    LET abs_model_dir == PathJoin(SettingDirectory(task, shot), entry.name)
        checkpoint_path == get_file_from_directory(abs_model_dir, entry.items, ".pth", "best")
        event_file == get_event_file_from_model_dir(abs_model_dir, entry.items)
    IN  /\ checkpoint_path # NonePath
        /\ event_file.ok
        /\ is_metric_in_event_file(event_file, MetricMap)
        /\ ~contains_csv_file(task, shot, entry.items)

\* What os.listdir(abs_model_dir) does at line 178 (through line 84) for an
\* entry of the setting directory that is not a directory.
ListdirRaises(entry) == ~entry.isDir

RECURSIVE ScanLoop(_, _, _, _, _)
ScanLoop(task, shot, listing, i, model_dirs) ==
    IF i > Len(listing) THEN [status |-> "ok", dirs |-> model_dirs]
    ELSE IF ListdirRaises(listing[i]) THEN [status |-> "NotADirectoryError", dirs |-> <<>>]
    ELSE ScanLoop(task, shot, listing, i + 1,
                  IF KeepsModelDir(task, shot, listing[i])
                  THEN Append(model_dirs, listing[i].name) ELSE model_dirs)

\* get_model_dirs_without_prediction (lines 164-198); listing is NoListing when
\* os.listdir(setting_directory) raises.
get_model_dirs_without_prediction(task, shot, listing) ==
    IF ~listing.ok THEN [status |-> "None", dirs |-> <<>>]
    ELSE ScanLoop(task, shot, listing.list, 1, <<>>)

\* ------------------------------------------- directories the model draws from
BestCkpt == FileItem(<<"best", "_", "epoch", ".pth">>)
LastCkpt == FileItem(<<"epoch", ".pth">>)
BestNote == FileItem(<<"best", ".txt">>)
ConfigPy == FileItem(<<"config", ".py">>)
MapEvents == EventFile(<<"events", ".out">>, {MetricMap})
AucEvents == EventFile(<<"events", ".out">>, {"AUC/AUC_multiclass"})
RunGood == DirItem(<<"run">>, Listed(<<MapEvents>>))
RunNoVis == DirItem(<<"run">>, NoListing)
RunEmptyVis == DirItem(<<"run">>, Listed(<<>>))
RunNoMetric == DirItem(<<"run">>, Listed(<<AucEvents>>))
OldRunNoVis == DirItem(<<"old">>, NoListing)
OldRunGood == DirItem(<<"old">>, Listed(<<MapEvents>>))

CkptChoices == {<<BestCkpt>>, <<LastCkpt, BestNote>>, <<LastCkpt, BestCkpt>>}
RunChoices == {<<>>, <<RunGood>>, <<RunNoVis>>, <<RunEmptyVis>>, <<RunNoMetric>>,
               <<OldRunNoVis, RunGood>>, <<OldRunGood, RunNoVis>>}
CsvChoices(task, shot) ==
    {<<>>, <<FileItem(SubmissionName(task, shot))>>,
     <<FileItem(SubmissionName(task, <<"7">>))>>}

ModelNames == << <<"resnet", "_", "exp", "1">>, <<"swin", "_", "exp", "2">>,
                 <<"dense", "_", "exp", "3">>, <<"vit">> >>

\* Every entry a setting directory of (task, shot) can hold under the name.
Entries(task, shot, name) ==
    {[name |-> name, isDir |-> TRUE, items |-> c \o <<ConfigPy>> \o r \o v] :
        c \in CkptChoices, r \in RunChoices, v \in CsvChoices(task, shot)}
    \cup {[name |-> name, isDir |-> FALSE, items |-> <<>>]}

RECURSIVE Listings(_, _, _)
Listings(task, shot, n) ==
    IF n = 0 THEN {<<>>}
    ELSE LET shorter == Listings(task, shot, n - 1)
         IN  shorter \cup {Append(l, e) : l \in {x \in shorter : Len(x) = n - 1},
                                          e \in Entries(task, shot, ModelNames[n])}

\* -------------------------------------------------- run_commands_on_cluster
CommandTask(command) == At(Split(command, "/"), 6)[1]
CfgPath(command) == At(Split(command, " "), 2)

\* Line 62 indexes cfg_path.split("/") at 6 and 7.
CfgIndexable(command) == HasIndex(Split(CfgPath(command), "/"), 7)

LimitReachedOffByOne(counter, limit) == counter > limit
LimitReached(counter, limit) == counter >= limit

\* The scheduler request of line 72.
SlurmPlacement(gpu) == <<"--nodelist=", "gpuc">>

SlurmCmd(command, task, gpu) ==
    LET cfg_path == CfgPath(command)
        cfg_path_split == Split(cfg_path, "/")
        shot == At(cfg_path_split, 6)
        exp == extract_exp_number(At(cfg_path_split, 7))
        log_dir == RSplitHead(cfg_path, "/")
        log_file_name == <<task, "_">> \o shot \o <<"_", "exp">> \o IntToStr(exp)
                            \o <<"_", "slurm-%j">>
    IN  <<"sbatch", " ", "-p", " ", "ls6", " ">> \o SlurmPlacement(gpu)
            \o <<" ", "--wrap=", "\"">> \o command \o <<"\"", " ", "-o", " ", "\"">>
            \o log_dir \o <<"/">> \o log_file_name \o <<".out", "\"">>

\* os.path.exists(log_dir) of line 68: a model directory of the scanned tree,
\* or a directory an earlier iteration made.
PathExists(path) ==
    \/ path \in created
    \/ \E ti \in 1..Len(tasks), si \in 1..Len(shots) :
          /\ fs[<<ti, si>>].ok
          /\ \E i \in 1..Len(fs[<<ti, si>>].list) :
                /\ fs[<<ti, si>>].list[i].isDir
                /\ path = PathJoin(SettingDirectory(tasks[ti], shots[si]),
                                   fs[<<ti, si>>].list[i].name)

\* What happens to the loop when a task is at its limit (line 56: continue).
AfterLimit(i) == i + 1

\* One iteration of the loop of lines 48-79.
ClusterStep ==
    /\ pc = "submit"
    /\ ci < Len(commands)
    /\ LET command == commands[ci + 1]
           task == CommandTask(command)
       IN  IF task \notin DOMAIN task_gpu_map
           THEN /\ pc' = "crashed"
                /\ err' = "ValueError"
                /\ UNCHANGED <<ci, task_counter, submitted, created, stdout>>
           ELSE IF LimitReached(task_counter[task], num_commands)
           THEN /\ ci' = AfterLimit(ci)
                /\ UNCHANGED <<pc, err, task_counter, submitted, created, stdout>>
           ELSE IF ~CfgIndexable(command)
           THEN /\ pc' = "crashed"
                /\ err' = "IndexError"
                /\ UNCHANGED <<ci, task_counter, submitted, created, stdout>>
           ELSE LET slurm_cmd == SlurmCmd(command, task, task_gpu_map[task])
                    log_dir == RSplitHead(CfgPath(command), "/")
                IN  /\ created' = IF PathExists(log_dir) THEN created
                                   ELSE created \cup {log_dir}
                    /\ stdout' = Append(stdout, <<"slurm_cmd", slurm_cmd>>)
                    /\ task_counter' = [task_counter EXCEPT ![task] = @ + 1]
                    /\ submitted' = Append(submitted, slurm_cmd)
                    /\ ci' = ci + 1
                    /\ UNCHANGED <<pc, err>>
    /\ UNCHANGED <<fs, model_infos, commands, num_commands, user_input, typed,
                   scanVars, alignVars, evalVars>>

\* The loop has run over every command: run_commands_on_cluster returns.
ClusterReturn ==
    /\ pc = "submit"
    /\ ci = Len(commands)
    /\ pc' = "done"
    /\ UNCHANGED <<fs, model_infos, stdout, commands, num_commands, task_counter, ci,
                   submitted, created, err, user_input, typed, scanVars, alignVars, evalVars>>

\* ------------------------------------------------------------- idle values
Combinations == {<<ti, si>> : ti \in 1..Len(tasks), si \in 1..Len(shots)}
EmptyFs == [c \in Combinations |-> Listed(<<>>)]
ZeroCounter == [t \in {"colon", "chest", "endo"} |-> 0]

IdleMain ==
    /\ fs = EmptyFs /\ model_infos = <<>> /\ stdout = <<>> /\ commands = <<>>
    /\ num_commands = 0 /\ task_counter = ZeroCounter /\ ci = 0 /\ submitted = <<>>
    /\ created = {} /\ err = "none" /\ user_input = <<>> /\ typed = <<>>
IdleScan == scanIn = <<"colon", <<"1">>, NoListing>> /\ scanOut = [status |-> "idle", dirs |-> <<>>]
IdleAlign == alignIn = <<>> /\ disk = <<>> /\ alignIdx = 0
IdleEval == evalReport = <<>> /\ evalInfos = <<>> /\ evalDirs = {}

\* ------------------------------- run_commands_on_cluster on its own inputs
ModelPath(task, shot, name) == PathJoin(SettingDirectory(task, shot), name)

CommandOf(task, name, hasConfig) ==
    LET model_path == ModelPath(task, <<"1">>, name)
    IN  InferCommand(task, <<"1">>, model_path,
                     IF hasConfig THEN PathJoin(model_path, ConfigPy.name) ELSE NonePath,
                     PathJoin(model_path, BestCkpt.name))

CommandUniverse ==
    {CommandOf("colon", ModelNames[1], TRUE), CommandOf("colon", ModelNames[2], TRUE),
     CommandOf("colon", ModelNames[3], FALSE), CommandOf("endo", ModelNames[1], TRUE),
     CommandOf("chest", ModelNames[1], TRUE), CommandOf("chest", ModelNames[4], FALSE),
     CommandOf("lung", ModelNames[1], TRUE)}

RECURSIVE SeqsUpTo(_, _)
SeqsUpTo(S, n) ==
    IF n = 0 THEN {<<>>}
    ELSE LET shorter == SeqsUpTo(S, n - 1)
         IN  shorter \cup {Append(l, e) : l \in {x \in shorter : Len(x) = n - 1}, e \in S}

InitCluster ==
    /\ pc = "submit"
    /\ fs = EmptyFs /\ model_infos = <<>> /\ stdout = <<>>
    /\ commands \in SeqsUpTo(CommandUniverse, MaxCommands)
    /\ num_commands \in (0 - MaxNeg)..MaxNum
    /\ task_counter = ZeroCounter /\ ci = 0 /\ submitted = <<>>
    /\ created = {} /\ err = "none" /\ user_input = <<>> /\ typed = <<>>
    /\ IdleScan /\ IdleAlign /\ IdleEval

NextCluster == ClusterStep \/ ClusterReturn

SpecCluster == InitCluster /\ [][NextCluster]_vars

\* ------------------- get_model_dirs_without_prediction on its own inputs
ScanCombos == {<<"chest", <<"1", "0">> >>, <<"colon", <<"1">> >>}

InitScan ==
    /\ pc = "scan"
    /\ \E c \in ScanCombos :
         \E l \in {NoListing} \cup {Listed(x) : x \in Listings(c[1], c[2], MaxListing)} :
            scanIn = <<c[1], c[2], l>>
    /\ scanOut = [status |-> "idle", dirs |-> <<>>]
    /\ IdleMain /\ IdleAlign /\ IdleEval

ScanCall ==
    /\ pc = "scan"
    /\ scanOut' = get_model_dirs_without_prediction(scanIn[1], scanIn[2], scanIn[3])
    /\ pc' = "scanned"
    /\ UNCHANGED <<fs, model_infos, stdout, commands, num_commands, task_counter, ci,
                   submitted, created, err, user_input, typed, scanIn, alignVars, evalVars>>

NextScan == ScanCall

SpecScan == InitScan /\ [][NextScan]_vars

\* ------------------------------------ infer_missing_predictions.py, __main__
combinations == [k \in 1..(Len(tasks) * Len(shots)) |->
                    <<((k - 1) \div Len(shots)) + 1, ((k - 1) % Len(shots)) + 1>>]

\* The orders in which a pool of PoolWorkers processes can hand back the
\* results of combinations[1..9]: the tasks are taken in order, and a result
\* can arrive only from a task that has been taken.
RECURSIVE OrdersFrom(_, _, _)
OrdersFrom(done, running, next) ==
    IF running = {} THEN {done}
    ELSE UNION {OrdersFrom(Append(done, k),
                           (running \ {k}) \cup (IF next <= Len(combinations) THEN {next} ELSE {}),
                           next + 1) : k \in running}

CompletionOrders ==
    LET first == IF PoolWorkers < Len(combinations) THEN PoolWorkers ELSE Len(combinations)
    IN  OrdersFrom(<<>>, 1..first, first + 1)

\* model_infos[model_name] = value (line 228): a dict keeps the position of a
\* key that is already there.
DictSet(d, value) ==
    IF \E i \in 1..Len(d) : d[i].name = value.name
    THEN [i \in 1..Len(d) |-> IF d[i].name = value.name THEN value ELSE d[i]]
    ELSE Append(d, value)

ModelInfo(task, shot, model_name) ==
    [task |-> task, shot |-> shot, exp_num |-> extract_exp_number(model_name),
     name |-> model_name, path |-> ModelPath(task, shot, model_name)]

RECURSIVE AddModels(_, _, _, _, _)
AddModels(d, task, shot, model_list, i) ==
    IF i > Len(model_list) THEN d
    ELSE AddModels(DictSet(d, ModelInfo(task, shot, model_list[i])), task, shot, model_list, i + 1)

\* Lines 223-234 over results in the order given; res[k] is the result of
\* combinations[k].
RECURSIVE BuildModelInfos(_, _, _, _)
BuildModelInfos(d, res, order, i) ==
    IF i > Len(order) THEN d
    ELSE LET c == combinations[order[i]]
         IN  BuildModelInfos(AddModels(d, tasks[c[1]], shots[c[2]], res[order[i]].dirs, 1),
                             res, order, i + 1)

\* with Pool() ... and the loop that fills model_infos (lines 214-234).
Collect ==
    /\ pc = "collect"
    /\ LET res == [k \in 1..Len(combinations) |->
                      get_model_dirs_without_prediction(
                          tasks[combinations[k][1]], shots[combinations[k][2]],
                          fs[combinations[k]])]
       IN  IF \E k \in DOMAIN res : res[k].status = "NotADirectoryError"
           THEN /\ pc' = "crashed" /\ err' = "NotADirectoryError"
                /\ UNCHANGED model_infos
           ELSE IF \E k \in DOMAIN res : res[k].status = "None"
           THEN /\ pc' = "crashed" /\ err' = "TypeError"
                /\ UNCHANGED model_infos
           ELSE \E order \in CompletionOrders :
                   /\ model_infos' = BuildModelInfos(<<>>, res, order, 1)
                   /\ pc' = "report" /\ UNCHANGED err
    /\ UNCHANGED <<fs, stdout, commands, num_commands, task_counter, ci, submitted,
                   created, user_input, typed, scanVars, alignVars, evalVars>>

\* sort_key (lines 104-110) of a report entry.
TaskOrder(t) == CASE t = <<"chest">> -> 1 [] t = <<"colon">> -> 2 [] t = <<"endo">> -> 3
sort_key(entry) ==
    LET parts == Split(entry, "/")
    IN  <<TaskOrder(At(parts, 5)), ParseDigits(At(Split(At(parts, 6), "-"), 0)),
          extract_exp_number(parts[Len(parts)])>>

KeyLess(a, b) ==
    \/ a[1] < b[1]
    \/ a[1] = b[1] /\ a[2] < b[2]
    \/ a[1] = b[1] /\ a[2] = b[2] /\ a[3] < b[3]

\* sorted(..., key=sort_key): stable.
RECURSIVE InsertSorted(_, _)
InsertSorted(sorted, e) ==
    IF sorted = <<>> THEN <<e>>
    ELSE IF KeyLess(sort_key(e), sort_key(sorted[Len(sorted)]))
         THEN Append(InsertSorted(SubSeq(sorted, 1, Len(sorted) - 1), e), sorted[Len(sorted)])
         ELSE Append(sorted, e)

RECURSIVE SortedEntries(_, _)
SortedEntries(entries, n) ==
    IF n = 0 THEN <<>> ELSE InsertSorted(SortedEntries(entries, n - 1), entries[n])

\* print_report (lines 90-101).
PrintReport ==
    /\ pc = "report"
    /\ LET model_dirs == [i \in 1..Len(model_infos) |-> model_infos[i].path]
       IN  stdout' = Append(stdout, <<"report", SortedEntries(model_dirs, Len(model_dirs))>>)
    /\ pc' = "prompt1"
    /\ UNCHANGED <<fs, model_infos, commands, num_commands, task_counter, ci, submitted,
                   created, err, user_input, typed, scanVars, alignVars, evalVars>>

\* str.strip(), str.lower() and int() on the characters of an answer.
Blank(c) == c = " "
RECURSIVE LStrip(_)
LStrip(s) == IF s # <<>> /\ Blank(s[1]) THEN LStrip(Tail(s)) ELSE s
RECURSIVE RStrip(_)
RStrip(s) == IF s # <<>> /\ Blank(s[Len(s)]) THEN RStrip(SubSeq(s, 1, Len(s) - 1)) ELSE s
Strip(s) == RStrip(LStrip(s))
LowerChar(c) == CASE c = "N" -> "n" [] c = "O" -> "o" [] c = "Y" -> "y" [] OTHER -> c
Lower(s) == [i \in 1..Len(s) |-> LowerChar(s[i])]
IsIntLiteral(s) ==
    LET body == IF s # <<>> /\ s[1] \in {"-", "+"} THEN Tail(s) ELSE s
    IN  body # <<>> /\ \A i \in 1..Len(body) : body[i] \in Digits
IntOf(s) == IF s[1] = "-" THEN 0 - ParseDigits(Tail(s))
            ELSE IF s[1] = "+" THEN ParseDigits(Tail(s)) ELSE ParseDigits(s)

\* What the user can type at a prompt.
Answers == {<<"n", "o">>, <<" ", "N", "o", " ">>, <<"y", "e", "s">>, <<>>, <<"n", "o", "1">>,
            <<"1">>, <<" ", "2">>, <<"-", "1">>}

\* The test of line 239.
DeclinesFirstExact(answer) == answer = <<"n", "o">>
DeclinesFirst(answer) == Lower(Strip(answer)) = <<"n", "o">>

\* First prompt (lines 238-240).
Prompt1 ==
    /\ pc = "prompt1"
    /\ \E answer \in Answers :
         /\ user_input' = answer
         /\ typed' = answer
         /\ pc' = IF DeclinesFirst(answer) THEN "exited" ELSE "generate"
    /\ stdout' = Append(stdout, <<"prompt", <<"generate?">> >>)
    /\ UNCHANGED <<fs, model_infos, commands, num_commands, task_counter, ci, submitted,
                   created, err, scanVars, alignVars, evalVars>>

\* The listing of a model directory of the scanned tree.
ItemsOf(task, shot, name) ==
    LET c == CHOOSE c \in Combinations : tasks[c[1]] = task /\ shots[c[2]] = shot
        l == fs[c].list
    IN  l[CHOOSE i \in 1..Len(l) : l[i].name = name].items

\* Lines 242-273: one command per value of model_infos.
CommandFor(model) ==
    InferCommand(model.task, model.shot, model.path,
                 get_file_from_directory(model.path, ItemsOf(model.task, model.shot, model.name),
                                         ".py", None),
                 get_file_from_directory(model.path, ItemsOf(model.task, model.shot, model.name),
                                         ".pth", "best"))

Generate ==
    /\ pc = "generate"
    /\ commands' = [i \in 1..Len(model_infos) |-> CommandFor(model_infos[i])]
    /\ stdout' = Append(stdout, <<"commands", commands'>>)
    /\ pc' = "prompt2"
    /\ UNCHANGED <<fs, model_infos, num_commands, task_counter, ci, submitted,
                   created, err, user_input, typed, scanVars, alignVars, evalVars>>

\* What the loop of lines 275-285 does with an answer that is not 'no' and
\* not an integer.
AfterInvalidAnswer == "prompt2"

InvalidAnswers == Cardinality({i \in 1..Len(stdout) : stdout[i][1] = "invalid"})

\* One round of the loop of lines 275-285, then the call of line 287.
Prompt2 ==
    /\ pc = "prompt2"
    /\ \E answer \in Answers :
         LET normal == Lower(Strip(answer))
             asked == Append(stdout, <<"prompt", <<"how many?">> >>)
         IN  /\ user_input' = normal
             /\ typed' = answer
             /\ IF normal = <<"n", "o">>
                THEN /\ pc' = "exited"
                     /\ stdout' = asked
                     /\ UNCHANGED <<num_commands, task_counter, ci>>
                ELSE IF IsIntLiteral(normal)
                THEN /\ pc' = "submit"
                     /\ num_commands' = IntOf(normal)
                     /\ task_counter' = ZeroCounter
                     /\ ci' = 0
                     /\ stdout' = asked
                ELSE /\ InvalidAnswers < MaxRetries
                     /\ pc' = AfterInvalidAnswer
                     /\ stdout' = Append(asked, <<"invalid", <<"Invalid input.">> >>)
                     /\ UNCHANGED <<num_commands, task_counter, ci>>
    /\ UNCHANGED <<fs, model_infos, commands, submitted, created, err,
                   scanVars, alignVars, evalVars>>

\* ------------------------------------------------- trees the main flow scans
ReadyItems == <<BestCkpt, ConfigPy, RunGood>>
MainEntryChoices(task, shot) ==
    {[isDir |-> TRUE, items |-> ReadyItems],
     [isDir |-> TRUE, items |-> <<BestCkpt, RunGood>>],
     [isDir |-> TRUE, items |-> Append(ReadyItems, FileItem(SubmissionName(task, shot)))],
     [isDir |-> FALSE, items |-> <<>>]}

PlacementsAt(k) ==
    {[combo |-> combinations[k],
      entry |-> [name |-> n, isDir |-> e.isDir, items |-> e.items]] :
        n \in {ModelNames[1], ModelNames[2]},
        e \in MainEntryChoices(tasks[combinations[k][1]], shots[combinations[k][2]])}

Placements == UNION {PlacementsAt(k) : k \in 1..MaxComboIdx}

\* The listing of combination c when the entries of placed are put in the tree.
ListingOf(placed, c) ==
    LET mine == SelectSeq(placed, LAMBDA p : p.combo = c)
    IN  [i \in 1..Len(mine) |-> mine[i].entry]

DistinctNames(l) == \A i, j \in 1..Len(l) : i # j => l[i].name # l[j].name

MainFileSystems ==
    {[c \in Combinations |-> IF c \in missing THEN NoListing ELSE Listed(ListingOf(placed, c))] :
        placed \in {p \in SeqsUpTo(Placements, MaxModels) :
                        \A c \in Combinations : DistinctNames(ListingOf(p, c))},
        missing \in {{}} \cup {{combinations[k]} : k \in 1..MaxComboIdx}}

InitMain ==
    /\ pc = "collect"
    /\ fs \in MainFileSystems
    /\ model_infos = <<>> /\ stdout = <<>> /\ commands = <<>>
    /\ num_commands = 0 /\ task_counter = ZeroCounter /\ ci = 0 /\ submitted = <<>>
    /\ created = {} /\ err = "none" /\ user_input = <<>> /\ typed = <<>>
    /\ IdleScan /\ IdleAlign /\ IdleEval

NextMain == Collect \/ PrintReport \/ Prompt1 \/ Generate \/ Prompt2 \/ ClusterStep \/ ClusterReturn

Spec == InitMain /\ [][NextMain]_vars

\* ------------------------------------------------- utility/align_submission.py
(* A validation csv is a sequence of rows [img_id, label]; img_id is NaN for a *)
(* row without an image id.  A submission csv is a sequence of rows            *)
(* <<img_id, score>> (no header; column 0 is renamed img_id, column 1 keeps    *)
(* its number).                                                                *)
NaN == "NaN"

\* .dropna(subset="img_id") (line 27): the rows keep their index labels 0..
DropNa(val) ==
    LET kept == {p \in 1..Len(val) : val[p].img_id # NaN}
        pos(k) == CHOOSE p \in kept : Cardinality({q \in kept : q < p}) = k - 1
    IN  [k \in 1..Cardinality(kept) |->
            [label |-> pos(k) - 1, img_id |-> val[pos(k)].img_id, lab |-> val[pos(k)].label]]

\* df_val_order.merge(df_submission, on='img_id') (line 33): an inner join that
\* keeps the order of the left keys; a key present several times on the right
\* gives one row per match, in the order of the right frame.
RECURSIVE MatchesOf(_, _, _)
MatchesOf(vrow, sub, j) ==
    IF j > Len(sub) THEN <<>>
    ELSE (IF sub[j][1] = vrow.img_id
          THEN <<[img_id |-> vrow.img_id, lab |-> vrow.lab, c1 |-> sub[j][2]]>> ELSE <<>>)
         \o MatchesOf(vrow, sub, j + 1)

RECURSIVE Merge(_, _, _)
Merge(df_val_order, sub, k) ==
    IF k > Len(df_val_order) THEN <<>>
    ELSE MatchesOf(df_val_order[k], sub, 1) \o Merge(df_val_order, sub, k + 1)

\* result[df_submission.columns] (line 34): the columns img_id and 1.
SelectValColumns(row) == <<row.img_id, row.lab>>
SelectColumns(row) == <<row.img_id, row.c1>>

\* Series lookup by label, as result["img_id"][i] and df_val_order["img_id"][i].
ResultHasLabel(result, i) == i < Len(result)
ValHasLabel(df_val_order, i) == \E k \in 1..Len(df_val_order) : df_val_order[k].label = i
ValAtLabel(df_val_order, i) ==
    df_val_order[CHOOSE k \in 1..Len(df_val_order) : df_val_order[k].label = i].img_id

\* The check of lines 37-40, from position i on: "ok", "mismatch" or "KeyError".
RECURSIVE OrderCheck(_, _, _)
OrderCheck(result, df_val_order, i) ==
    IF i >= Len(df_val_order) THEN "ok"
    ELSE IF ~ResultHasLabel(result, i) \/ ~ValHasLabel(df_val_order, i) THEN "KeyError"
    ELSE IF result[i + 1][1] # ValAtLabel(df_val_order, i) THEN "mismatch"
    ELSE OrderCheck(result, df_val_order, i + 1)

AlignedRows(val, sub) ==
    LET merged == Merge(DropNa(val), sub, 1)
    IN  [k \in 1..Len(merged) |-> SelectColumns(merged[k])]

\* One round of the loop of lines 22-41.
AlignFile ==
    /\ pc = "align"
    /\ alignIdx < Len(alignIn)
    /\ LET f == alignIn[alignIdx + 1]
           df_val_order == DropNa(f.val)
           result == AlignedRows(f.val, f.sub)
           check == OrderCheck(result, df_val_order, 0)
       IN  IF check = "mismatch"
           THEN /\ stdout' = Append(stdout, <<"print", <<"Something went wrong, aborting">> >>)
                /\ pc' = "exited"
                /\ UNCHANGED <<disk, alignIdx, err>>
           ELSE IF check = "KeyError"
           THEN /\ pc' = "crashed" /\ err' = "KeyError"
                /\ UNCHANGED <<disk, alignIdx, stdout>>
           ELSE /\ disk' = [disk EXCEPT ![alignIdx + 1] = result]
                /\ alignIdx' = alignIdx + 1
                /\ UNCHANGED <<pc, err, stdout>>
    /\ UNCHANGED <<fs, model_infos, commands, num_commands, task_counter, ci, submitted,
                   created, user_input, typed, scanVars, alignIn, evalVars>>

\* Line 43, after the last file.
AlignDone ==
    /\ pc = "align"
    /\ alignIdx = Len(alignIn)
    /\ stdout' = Append(stdout, <<"print", <<"Successfully aligned submission files">> >>)
    /\ pc' = "done"
    /\ UNCHANGED <<fs, model_infos, commands, num_commands, task_counter, ci, submitted,
                   created, err, user_input, typed, scanVars, alignVars, evalVars>>

\* The csv pairs the model draws from.
ImgIds == {"a", "b"}
ValCsvs == {[k \in 1..Len(ids) |-> [img_id |-> ids[k], label |-> k]] :
               ids \in SeqsUpTo(ImgIds \cup {NaN}, MaxVal)}
\* pd.read_csv (line 30) needs at least one row.
SubCsvs == {[k \in 1..Len(ids) |-> <<ids[k], k>>] :
               ids \in SeqsUpTo(ImgIds \cup {"c"}, MaxSub) \ {<<>>}}
CsvFiles == {[val |-> v, sub |-> s] : v \in ValCsvs, s \in SubCsvs}
Row(id, score) == <<id, score>>
ValOf(ids) == [k \in 1..Len(ids) |-> [img_id |-> ids[k], label |-> k]]
Companions ==
    {[val |-> ValOf(<<"a", "b">>), sub |-> <<Row("b", 1), Row("a", 2)>>],
     [val |-> ValOf(<<"a", "b">>), sub |-> <<Row("b", 1)>>],
     [val |-> ValOf(<<"a", "b">>), sub |-> <<Row("a", 1)>>]}

InitAlign ==
    /\ pc = "align"
    /\ alignIn \in {<<f>> : f \in CsvFiles}
                   \cup {<<g, f>> : g \in Companions, f \in CsvFiles}
                   \cup {<<f, g>> : g \in Companions, f \in CsvFiles}
    /\ disk = [k \in 1..Len(alignIn) |-> alignIn[k].sub]
    /\ alignIdx = 0
    /\ IdleMain /\ IdleScan /\ IdleEval

NextAlign == AlignFile \/ AlignDone

SpecAlign == InitAlign /\ [][NextAlign]_vars

\* ------------------------------------------------------ ensemble/eval_2_val.py
TASKS == <<"colon", "endo", "chest">>
TIMESTAMP == <<"02-09", "_", "00-32-41">>
VAL_TARGET_PATH == <<"ensemble", "/", "validation">>
SCRATCH_BASE_PATH == <<"/", "scratch", "/", "medfm", "/", "medfm-challenge">>

\* str.strip(chars).
RECURSIVE LStripChars(_, _)
LStripChars(s, chars) == IF s # <<>> /\ s[1] \in chars THEN LStripChars(Tail(s), chars) ELSE s
RECURSIVE RStripChars(_, _)
RStripChars(s, chars) ==
    IF s # <<>> /\ s[Len(s)] \in chars THEN RStripChars(SubSeq(s, 1, Len(s) - 1), chars) ELSE s
StripChars(s, chars) == RStripChars(LStripChars(s, chars), chars)
Whitespace == {" ", "\t", "\n"}

\* The lines construct_model_paths keeps (line 5).
IsModelLine(line) == \E k \in 1..Len(TASKS) : Contains(line, TASKS[k])

\* Lines 9-17 can index task_shot_exp at 1 and 2.
LineParses(line) == Len(Split(Split(line, "\t")[1], "/")) >= 3

\* Lines 9-24 for one line.
ModelRecord(line) ==
    LET parts == Split(line, "\t")
        task_shot_exp == Split(parts[1], "/")
    IN  [model_name |-> StripChars(parts[Len(parts)], Whitespace),
         task |-> StripChars(StripChars(At(task_shot_exp, 0), {"|", " "}), Whitespace),
         shot |-> StripChars(At(task_shot_exp, 1), Whitespace),
         exp |-> StripChars(At(task_shot_exp, 2), Whitespace)]

\* Lines 40-43: read the report and construct_model_paths.
EvalParse ==
    /\ pc = "eval_parse"
    /\ LET lines == SelectSeq(evalReport, IsModelLine)
       IN  IF \E k \in 1..Len(lines) : ~LineParses(lines[k])
           THEN /\ pc' = "crashed" /\ err' = "IndexError" /\ UNCHANGED evalInfos
           ELSE /\ evalInfos' = [k \in 1..Len(lines) |-> ModelRecord(lines[k])]
                /\ pc' = "eval_print" /\ UNCHANGED err
    /\ UNCHANGED <<fs, model_infos, stdout, commands, num_commands, task_counter, ci,
                   submitted, created, user_input, typed, scanVars, alignVars,
                   evalReport, evalDirs>>

\* Lines 45-46.
EvalPrint ==
    /\ pc = "eval_print"
    /\ stdout' = stdout \o [k \in 1..Len(evalInfos) |-> <<"record", evalInfos[k]>>]
    /\ pc' = "eval_loop"
    /\ UNCHANGED <<fs, model_infos, commands, num_commands, task_counter, ci, submitted,
                   created, err, user_input, typed, scanVars, alignVars, evalVars>>

\* Iterating a dict gives its keys, in insertion order (lines 19-24).
RecordKeys == << <<"m", "o", "d", "e", "l", "_", "n", "a", "m", "e">>, <<"t", "a", "s", "k">>,
                 <<"s", "h", "o", "t">>, <<"e", "x", "p">> >>

\* "for name, task, shot, exp in model" (line 49) unpacks each item into four.
UnpacksIntoFour(item) == Len(item) = 4

ValidationPath(task, shot, name) ==
    PathJoin(PathJoin(PathJoin(PathJoin(PathJoin(SCRATCH_BASE_PATH, <<"work_dirs">>), task),
                               shot), name),
             task \o <<"_">> \o shot \o <<"_", "validation", ".csv">>)
TargetPath(exp) == PathJoin(PathJoin(PathJoin(VAL_TARGET_PATH, TIMESTAMP), <<"result">>), exp)

\* Lines 48-59: the first round of the two nested loops.
EvalLoop ==
    /\ pc = "eval_loop"
    /\ IF evalInfos = <<>>
       THEN pc' = "done" /\ UNCHANGED <<err, stdout, evalDirs>>
       ELSE LET item == RecordKeys[1]
            IN  IF ~UnpacksIntoFour(item)
                THEN pc' = "crashed" /\ err' = "ValueError" /\ UNCHANGED <<stdout, evalDirs>>
                ELSE /\ stdout' = stdout \o
                            << <<"print", ValidationPath(<<item[2]>>, <<item[3]>>, <<item[1]>>)>>,
                               <<"print", TargetPath(<<item[4]>>)>> >>
                     /\ evalDirs' = evalDirs \cup {TargetPath(<<item[4]>>)}
                     /\ pc' = "exited" /\ UNCHANGED err
    /\ UNCHANGED <<fs, model_infos, commands, num_commands, task_counter, ci, submitted,
                   created, user_input, typed, scanVars, alignVars, evalReport, evalInfos>>

\* The report lines the model draws from.
ReportLine(task, shot, exp, name) ==
    <<"|", " ", task, "/">> \o shot \o <<"-", "shot", "/", "exp">> \o exp
        \o <<" ", "\t", "0.5", "\t", " ">> \o name \o <<"\n">>
ReportLinesUniverse ==
    {ReportLine("colon", <<"1">>, <<"1">>, ModelNames[1]),
     ReportLine("chest", <<"1", "0">>, <<"2">>, ModelNames[2]),
     <<"|", " ", "Task", "/", "Shot", "/", "Exp", "\t", "Agg", "\t", "Model", "\n">>,
     <<"Best", " ", "endo", " ", "models", "\n">>,
     <<"\n">>}

InitEval ==
    /\ pc = "eval_parse"
    /\ evalReport \in SeqsUpTo(ReportLinesUniverse, MaxLines)
    /\ evalInfos = <<>> /\ evalDirs = {}
    /\ IdleMain /\ IdleScan /\ IdleAlign

NextEval == EvalParse \/ EvalPrint \/ EvalLoop

SpecEval == InitEval /\ [][NextEval]_vars

\* ============================================================== properties
Finished == pc \in {"done", "crashed", "exited"}

\* The inference command wrapped in a submitted scheduler line (--wrap="...").
WrappedCommand(slurm_cmd) == At(Split(slurm_cmd, "\""), 1)
SubmittedCommands == [k \in 1..Len(submitted) |-> WrappedCommand(submitted[k])]
OfTask(cmds, t) == SelectSeq(cmds, LAMBDA c : CommandTask(c) = t)
KnownTasks == {"colon", "chest", "endo"}
AllTasksKnown == \A i \in 1..Len(commands) : CommandTask(commands[i]) \in KnownTasks

\* The request --gres=gpu:<gpu>:1 in a scheduler line.
RequestsGpu(slurm_cmd, gpu) ==
    \E i \in 1..(Len(slurm_cmd) - 1) : slurm_cmd[i] = "--gres=gpu:" /\ slurm_cmd[i + 1] = gpu

DedicatedGpu(t) == IF t = "colon" THEN "rtx4090" ELSE "rtx3090"

\* C2: every submitted job requests the GPU dedicated to its task: rtx4090 for a
\* colon command, rtx3090 for a chest or endo command.
C2_JobsOnDedicatedGpu ==
    \A k \in 1..Len(submitted) :
        RequestsGpu(submitted[k], DedicatedGpu(CommandTask(submitted[k])))

\* C3 as stated: when run_commands_on_cluster has ended on commands of known
\* tasks, the jobs of each task are the first min(max(num_commands, 0), n) of
\* the n commands of that task, in list order.
CapOf(n) == IF num_commands < 0 THEN 0 ELSE IF num_commands < n THEN num_commands ELSE n

C3_FirstCommandsPerTask ==
    (Finished /\ AllTasksKnown) =>
        \A t \in KnownTasks :
            OfTask(SubmittedCommands, t) =
                SubSeq(OfTask(commands, t), 1, CapOf(Len(OfTask(commands, t))))

\* C3 amended: the same, up to the first command that is due for submission
\* (fewer than num_commands earlier commands of its task) and whose config path
\* has fewer than eight "/"-separated parts; there the function raises
\* IndexError and submits nothing more.
EarlierOfTask(i) ==
    Cardinality({j \in 1..(i - 1) : CommandTask(commands[j]) = CommandTask(commands[i])})
Due(i) == EarlierOfTask(i) < num_commands
ConfigPathParts(command) == Len(Split(At(Split(command, " "), 2), "/"))
FatalCommands == {i \in 1..Len(commands) : Due(i) /\ ConfigPathParts(commands[i]) < 8}
StopIndex == IF FatalCommands = {} THEN Len(commands) + 1 ELSE Min(FatalCommands)

RECURSIVE DueBefore(_, _)
DueBefore(i, t) ==
    IF i = 0 THEN <<>>
    ELSE IF Due(i) /\ CommandTask(commands[i]) = t
         THEN Append(DueBefore(i - 1, t), commands[i])
         ELSE DueBefore(i - 1, t)

C3_FirstCommandsUntilIndexError ==
    (Finished /\ AllTasksKnown) =>
        /\ \A t \in KnownTasks : OfTask(SubmittedCommands, t) = DueBefore(StopIndex - 1, t)
        /\ (pc = "crashed") = (FatalCommands # {})
        /\ (pc = "crashed") => err = "IndexError"

\* C3 witness: a colon command was skipped at the limit and a later endo command
\* was still submitted.
C3_Witness ==
    /\ pc = "done" /\ num_commands = 1 /\ Len(commands) = 3
    /\ CommandTask(commands[1]) = "colon" /\ CommandTask(commands[2]) = "colon"
    /\ CommandTask(commands[3]) = "endo"
    /\ SubmittedCommands = <<commands[1], commands[3]>>

\* ---- the four conditions of the scan, read off the directory itself
HasBestCheckpoint(entry) ==
    \E i \in 1..Len(entry.items) :
        LET n == entry.items[i].name
        IN  n # <<>> /\ n[Len(n)] = ".pth" /\ \E j \in 1..Len(n) : n[j] = "best"

\* The event file of a run folder: the first file of the vis_data folder of the
\* first subdirectory in the listing.
SubdirIndexes(entry) == {i \in 1..Len(entry.items) : entry.items[i].isDir}
HasEventFile(entry) ==
    /\ SubdirIndexes(entry) # {}
    /\ entry.items[Min(SubdirIndexes(entry))].vis.ok
    /\ entry.items[Min(SubdirIndexes(entry))].vis.list # <<>>
EventFileHasMap(entry) ==
    "multi-label/mAP" \in entry.items[Min(SubdirIndexes(entry))].vis.list[1].tags
HasSubmissionCsv(task, shot, entry) ==
    \E i \in 1..Len(entry.items) :
        entry.items[i].name = <<task, "_">> \o shot \o <<"-", "shot", "_", "submission", ".csv">>

MeetsAllFour(task, shot, entry) ==
    /\ HasBestCheckpoint(entry)
    /\ HasEventFile(entry)
    /\ EventFileHasMap(entry)
    /\ ~HasSubmissionCsv(task, shot, entry)

Range(q) == {q[i] : i \in 1..Len(q)}

\* C1: get_model_dirs_without_prediction(task, shot) returns exactly the entries
\* of the setting directory that have a best .pth checkpoint, an event file, the
\* tag multi-label/mAP in it, and no <task>_<shot>-shot_submission.csv.
C1_ExactlyTheFourConditions ==
    (pc = "scanned" /\ scanIn[3].ok) =>
        /\ scanOut.status = "ok"
        /\ Range(scanOut.dirs) =
              {scanIn[3].list[i].name : i \in
                  {j \in 1..Len(scanIn[3].list) :
                      MeetsAllFour(scanIn[1], scanIn[2], scanIn[3].list[j])}}

\* C12: get_event_file_from_model_dir looks at the first subdirectory of the
\* model directory only: it returns the first entry of that subdirectory's
\* vis_data folder; it returns None, and the scan skips the folder, when there is
\* no subdirectory or the first one has no vis_data folder with an entry in it,
\* whatever the other subdirectories hold.
ScannedDir(j) == <<"/", "scratch", "/", "medfm", "/", "medfm-challenge", "/", "work_dirs", "/">>
                    \o <<scanIn[1], "/">> \o scanIn[2] \o <<"-", "shot", "/">>
                    \o scanIn[3].list[j].name
C12_OnlyFirstSubdirectoryInspected ==
    (pc = "scanned" /\ scanOut.status = "ok") =>
        \A j \in 1..Len(scanIn[3].list) :
            LET entry == scanIn[3].list[j]
                event_file == get_event_file_from_model_dir(ScannedDir(j), entry.items)
            IN  /\ HasEventFile(entry) =>
                      LET first == entry.items[Min(SubdirIndexes(entry))]
                      IN  /\ event_file.ok
                          /\ event_file.path = ScannedDir(j) \o <<"/">> \o first.name
                                \o <<"/", "vis_data", "/">> \o first.vis.list[1].name
                /\ ~HasEventFile(entry) =>
                      /\ ~event_file.ok
                      /\ entry.name \notin Range(scanOut.dirs)

\* C12 witness: a folder with a best checkpoint and no prediction csv whose
\* first subdirectory has no vis_data and whose second holds an event file with
\* the metric was scanned and is not returned.
C12_Witness ==
    /\ pc = "scanned" /\ scanOut.status = "ok"
    /\ \E j \in 1..Len(scanIn[3].list) :
          LET entry == scanIn[3].list[j]
              subs == SubdirIndexes(entry)
          IN  /\ HasBestCheckpoint(entry) /\ ~HasSubmissionCsv(scanIn[1], scanIn[2], entry)
              /\ Cardinality(subs) = 2
              /\ ~entry.items[Min(subs)].vis.ok
              /\ \E i \in subs : /\ entry.items[i].vis.ok
                                 /\ entry.items[i].vis.list # <<>>
                                 /\ "multi-label/mAP" \in entry.items[i].vis.list[1].tags
              /\ entry.name \notin Range(scanOut.dirs)

\* ---- main flow
Printed(kind) == {i \in 1..Len(stdout) : stdout[i][1] = kind}
ReportPrinted == Printed("report") # {}
ReportLines == stdout[Min(Printed("report"))][2]

Blanks(n) == [i \in 1..n |-> " "]
\* answer is w with blanks around it.
Padded(answer, w) ==
    \E l, r \in 0..Len(answer) : answer = Blanks(l) \o w \o Blanks(r)
SaysNo(answer) ==
    \E w \in {<<"n", "o">>, <<"N", "o">>, <<"n", "O">>, <<"N", "O">>} : Padded(answer, w)
SaysInteger(answer) ==
    \E l, r \in 0..Len(answer) :
        LET w == SubSeq(answer, l + 1, Len(answer) - r)
            body == IF w # <<>> /\ w[1] \in {"-", "+"} THEN Tail(w) ELSE w
        IN  /\ l + r <= Len(answer)
            /\ answer = Blanks(l) \o w \o Blanks(r)
            /\ body # <<>>
            /\ \A i \in 1..Len(body) : body[i] \in Digits

\* C4: no job is submitted before the scan has finished, the report is printed,
\* the first prompt got an answer other than 'no' and the second an integer;
\* 'no' (any case, blanks around it) at either prompt ends the program with no
\* submission; another non-integer answer at the second prompt asks again.
C4_PromptsBeforeSubmission ==
    /\ [](submitted # <<>> =>
            /\ pc \in {"submit", "done", "crashed"}
            /\ ReportPrinted
            /\ Cardinality(Printed("prompt")) >= 2
            /\ SaysInteger(typed))
    /\ [](pc = "exited" => submitted = <<>>)
    /\ [][submitted' # submitted => pc = "submit"]_vars
    /\ [][(pc' = "submit" /\ pc # "submit") => (pc = "prompt2" /\ SaysInteger(typed'))]_vars
    /\ [][pc' = "prompt2" => (pc = "generate" \/ (pc = "prompt2" /\ ~SaysNo(typed')
                                                     /\ ~SaysInteger(typed')))]_vars
    /\ [][pc' = "generate" => (pc = "prompt1" /\ ~SaysNo(typed'))]_vars
    /\ [][pc' = "prompt1" => (pc = "report" /\ Printed("report")' # {})]_vars
    /\ [][pc' = "report" => pc = "collect"]_vars
    /\ [][(pc \in {"prompt1", "prompt2"} /\ SaysNo(typed')) => pc' = "exited"]_vars
    /\ [][(pc = "prompt2" /\ ~SaysNo(typed') /\ ~SaysInteger(typed')) =>
              (pc' = "prompt2" /\ submitted' = <<>>)]_vars

\* C4 witness: jobs were submitted after an invalid and then an integer answer.
C4_Witness == pc = "done" /\ submitted # <<>> /\ Printed("invalid") # {}

\* ---- what the scan returns for the nine combinations
ScanOf(c) == get_model_dirs_without_prediction(tasks[c[1]], shots[c[2]], fs[c])
Found == {<<c, n>> \in Combinations \X Range(ModelNames) : n \in Range(ScanOf(c).dirs)}
FoundPath(f) == PathJoin(PathJoin(PathJoin(work_dir_path, <<tasks[f[1][1]]>>),
                                  shots[f[1][2]] \o <<"-", "shot">>), f[2])
FoundCsv(f) ==
    PathJoin(FoundPath(f), <<tasks[f[1][1]], "_">> \o shots[f[1][2]]
                               \o <<"-", "shot", "_", "submission", ".csv">>)
OutOf(command) == LET words == Split(command, " ") IN words[Len(words)]
Count(q, x) == Cardinality({i \in 1..Len(q) : q[i] = x})

\* C8: when the directory of one combination cannot be listed, the main flow
\* still collects the other eight results and prints the report for them.
MissingDirs == {c \in Combinations : ~fs[c].ok}
OthersScanned == \A c \in Combinations \ MissingDirs : ScanOf(c).status = "ok"
C8_MissingDirectorySkipped ==
    (pc # "collect" /\ Cardinality(MissingDirs) = 1 /\ OthersScanned) =>
        /\ err # "TypeError"
        /\ pc # "report" =>
              /\ ReportPrinted
              /\ \A f \in Found : Count(ReportLines, FoundPath(f)) >= 1

\* C9: every model folder the scan returns is in the report once and has exactly
\* one generated command, whose --out is its <task>_<shot>-shot_submission.csv.
CommandsGenerated == Printed("commands") # {}
C9_EveryFoundModelReportedAndCommanded ==
    CommandsGenerated =>
        \A f \in Found :
            /\ Count(ReportLines, FoundPath(f)) = 1
            /\ Cardinality({i \in 1..Len(commands) : OutOf(commands[i]) = FoundCsv(f)}) = 1

\* ---- the main flow when the pool hands the results back in the order of
\* combinations
InOrder == [k \in 1..Len(combinations) |-> k]
InOrderInfos ==
    BuildModelInfos(<<>>, [k \in 1..Len(combinations) |-> ScanOf(combinations[k])], InOrder, 1)
InOrderReport ==
    SortedEntries([i \in 1..Len(InOrderInfos) |-> InOrderInfos[i].path], Len(InOrderInfos))
InOrderCommands == [i \in 1..Len(InOrderInfos) |-> CommandFor(InOrderInfos[i])]

\* C11: the report lines and the generated commands (content and order) are the
\* same for every order in which the pool returns the nine results: whatever the
\* completion order, they equal those of the run with in-order completion.
C11_OutputIndependentOfPoolOrder ==
    /\ ReportPrinted => ReportLines = InOrderReport
    /\ CommandsGenerated => commands = InOrderCommands

\* The report alone, on a tree in which no folder name occurs in two
\* combinations.
NamesOnce ==
    \A c, d \in Combinations :
        (c # d /\ fs[c].ok /\ fs[d].ok) =>
            {fs[c].list[i].name : i \in 1..Len(fs[c].list)}
                \cap {fs[d].list[i].name : i \in 1..Len(fs[d].list)} = {}
ReportIndependentForDistinctNames ==
    (ReportPrinted /\ NamesOnce) => ReportLines = InOrderReport

\* ---- align_submission.py
KeptIds(val) ==
    LET ids == [k \in 1..Len(val) |-> val[k].img_id]
    IN  SelectSeq(ids, LAMBDA x : x # "NaN")
FirstColumn(rows) == [k \in 1..Len(rows) |-> rows[k][1]]
SuccessPrinted ==
    \E i \in 1..Len(stdout) : stdout[i] = <<"print", <<"Successfully aligned submission files">> >>
AbortPrinted ==
    \E i \in 1..Len(stdout) : stdout[i] = <<"print", <<"Something went wrong, aborting">> >>

\* C5: after a csv was processed without aborting, the first column of the
\* rewritten file equals, position by position, the img_id column of the
\* validation csv without its rows that lack an img_id.
C5_RewrittenIdsFollowValidation ==
    \A k \in 1..alignIdx : FirstColumn(disk[k]) = KeptIds(alignIn[k].val)

\* The submission holds every validation img_id exactly once and no other id.
CoversValidationOnce(f) ==
    /\ \A v \in Range(KeptIds(f.val)) : Count(FirstColumn(f.sub), v) = 1
    /\ \A k \in 1..Len(f.sub) : f.sub[k][1] \in Range(KeptIds(f.val))
IsPermutation(p, q) ==
    /\ Len(p) = Len(q)
    /\ \A x \in Range(p) \cup Range(q) : Count(p, x) = Count(q, x)
TwoColumns(rows) == \A k \in 1..Len(rows) : Len(rows[k]) = 2

\* C6 as stated: when the submission holds every validation img_id exactly once
\* and no other id, the rewritten file has the same columns and its rows are a
\* permutation of the original rows.
C6_AlignmentOnlyReorders ==
    \A k \in 1..alignIdx :
        CoversValidationOnce(alignIn[k]) =>
            TwoColumns(disk[k]) /\ IsPermutation(disk[k], alignIn[k].sub)

\* C6 amended: the same, for a validation csv whose img_ids are pairwise
\* distinct.
DistinctIds(ids) == \A i, j \in 1..Len(ids) : i # j => ids[i] # ids[j]
C6_ReordersForDistinctValidationIds ==
    \A k \in 1..alignIdx :
        (CoversValidationOnce(alignIn[k]) /\ DistinctIds(KeptIds(alignIn[k].val))) =>
            TwoColumns(disk[k]) /\ IsPermutation(disk[k], alignIn[k].sub)

\* C6 witness: a file of two rows was rewritten in another order.
C6_Witness ==
    /\ alignIdx >= 1
    /\ CoversValidationOnce(alignIn[1]) /\ DistinctIds(KeptIds(alignIn[1].val))
    /\ Len(disk[1]) = 2 /\ disk[1] # alignIn[1].sub

\* C7: when the order check fails for a file, the file stays as it was, the
\* script stops with 'Something went wrong, aborting', later files are not
\* touched, the success message is not printed, and the files aligned before
\* stay rewritten.
C7_FailedCheckAbortsWithMessage ==
    (pc \in {"exited", "crashed"}) =>
        /\ pc = "exited" /\ AbortPrinted /\ ~SuccessPrinted
        /\ \A k \in (alignIdx + 1)..Len(alignIn) : disk[k] = alignIn[k].sub
        /\ \A k \in 1..alignIdx :
              SubSeq(FirstColumn(disk[k]), 1, Len(KeptIds(alignIn[k].val)))
                  = KeptIds(alignIn[k].val)

\* ---- eval_2_val.py
\* C10: for every record construct_model_paths returns, the main loop derives
\* work_dirs/<task>/<shot>/<model_name>/<task>_<shot>_validation.csv and makes
\* sure ensemble/validation/<TIMESTAMP>/result/<exp> exists, without an error.
RecordPath(r) ==
    <<"/", "scratch", "/", "medfm", "/", "medfm-challenge", "/", "work_dirs", "/">>
        \o r.task \o <<"/">> \o r.shot \o <<"/">> \o r.model_name \o <<"/">>
        \o r.task \o <<"_">> \o r.shot \o <<"_", "validation", ".csv">>
RecordTarget(r) ==
    <<"ensemble", "/", "validation", "/", "02-09", "_", "00-32-41", "/", "result", "/">> \o r.exp
C10_EveryRecordGetsPathAndDirectory ==
    (pc \in {"done", "exited", "crashed"} /\ evalInfos # <<>>) =>
        /\ err = "none"
        /\ \A k \in 1..Len(evalInfos) :
              /\ \E i \in 1..Len(stdout) : stdout[i] = <<"print", RecordPath(evalInfos[k])>>
              /\ RecordTarget(evalInfos[k]) \in evalDirs

====
